---- MODULE Spec2Model ----
(***************************************************************************)
(* Model of swaggerpy/client.py: Resource construction and the dynamic     *)
(* operation dispatcher Operation.__call__ (parameter binding, request     *)
(* synthesis, hand-over to the transport).                                 *)
(*                                                                         *)
(* Text is a sequence of one-character strings.  A Python value is a       *)
(* record with a tag t and one payload field per kind, so that values of   *)
(* different kinds stay comparable.  A dict is a total function over Keys  *)
(* whose value NoEntry marks a key the dict does not hold.  The dicts      *)
(* the caller passes live in heap and are passed by reference, as in       *)
(* Python.                                                                 *)
(***************************************************************************)
EXTENDS Integers, Sequences, FiniteSets, TLC

VARIABLES resource, loaded, operations, http_client, heap, frame, inflight

vars == <<resource, loaded, operations, http_client, heap, frame, inflight>>

(* ---------------------------- bounds ---------------------------------- *)

\* longest parameter list of an operation descriptor
MaxParams == 2

\* transport calls that may be awaiting completion at once
MaxInFlight == 2

(* ------------------------------ text ----------------------------------- *)

T_http == <<"h", "t", "t", "p">>
T_ws == <<"w", "s">>

Digits == <<"0", "1", "2", "3", "4", "5", "6", "7", "8", "9">>

\* urllib.always_safe restricted to the characters the model uses
AlwaysSafe ==
    {"a", "b", "h", "k", "m", "p", "s", "t", "w", "C", "D", "F", "B",
     "0", "1", "2", "3", "4", "5", "6", "7", "8", "9", "_", ".", "-"}

\* '%XX' for the characters outside always_safe
HexOf(c) ==
    CASE c = "," -> <<"%", "2", "C">>
      [] c = "/" -> <<"%", "2", "F">>
      [] c = ":" -> <<"%", "3", "A">>
      [] c = "{" -> <<"%", "7", "B">>
      [] c = "}" -> <<"%", "7", "D">>
      [] c = "'" -> <<"%", "2", "7">>
      [] c = "?" -> <<"%", "3", "F">>
      [] c = "=" -> <<"%", "3", "D">>
      [] c = "&" -> <<"%", "2", "6">>
      [] c = "%" -> <<"%", "2", "5">>
      [] c = "+" -> <<"%", "2", "B">>
      [] OTHER -> <<"%", "0", "0">>

\* a quote_plus that lets every character through
QuotePlusNothing(s) ==
    s

RECURSIVE QuotePlus(_)
\* urllib.quote_plus(s): safe characters kept, ' ' -> '+', the rest -> %XX
QuotePlus(s) ==
    IF s = <<>> THEN <<>>
    ELSE LET c == Head(s)
             q == IF c \in AlwaysSafe THEN <<c>>
                  ELSE IF c = " " THEN <<"+">>
                  ELSE HexOf(c)
         IN  q \o QuotePlus(Tail(s))

StartsWith(s, p) ==
    /\ Len(s) >= Len(p)
    /\ SubSeq(s, 1, Len(p)) = p

Drop(s, n) == SubSeq(s, n + 1, Len(s))

RECURSIVE Replace(_, _, _)
\* str.replace(old, new): every non-overlapping occurrence, left to right
Replace(s, old, new) ==
    IF Len(s) < Len(old) THEN s
    ELSE IF StartsWith(s, old) THEN new \o Replace(Drop(s, Len(old)), old, new)
    ELSE <<Head(s)>> \o Replace(Tail(s), old, new)

RECURSIVE Contains(_, _)
Contains(s, sub) ==
    IF Len(s) < Len(sub) THEN FALSE
    ELSE StartsWith(s, sub) \/ Contains(Tail(s), sub)

RECURSIVE Join(_, _)
\* sep.join(items)
Join(items, sep) ==
    IF items = <<>> THEN <<>>
    ELSE IF Len(items) = 1 THEN items[1]
    ELSE items[1] \o sep \o Join(Tail(items), sep)

RECURSIVE StrOfNat(_)
\* str(n) for n >= 0
StrOfNat(n) ==
    IF n < 10 THEN <<Digits[n + 1]>>
    ELSE StrOfNat(n \div 10) \o <<Digits[(n % 10) + 1]>>

\* re.sub('^http', 'ws', uri)
ReSubHttp(uri) ==
    IF StartsWith(uri, T_http) THEN T_ws \o Drop(uri, Len(T_http)) ELSE uri

(* ------------------------------ dicts ---------------------------------- *)

Keys == {"k", "m"}
\* the order in which a dict is iterated, fixed for given keys
KeyOrder == <<"k", "m">>
NoEntry == 0

EmptyDict == [k \in Keys |-> NoEntry]

\* bool(d)
Truthy(d) == \E k \in Keys : d[k] # NoEntry

\* an update that keeps the entries d already holds
DictUpdateEarlierWins(d, e) ==
    [k \in Keys |-> IF d[k] # NoEntry THEN d[k] ELSE e[k]]

\* the mapping d becomes under d.update(e)
DictUpdate(d, e) ==
    [k \in Keys |-> IF e[k] # NoEntry THEN e[k] ELSE d[k]]

\* the 'key: value' items of d in iteration order, keys quoted with q
DictItems(d, q) ==
    LET item(k) == <<q, k, q, ":", " ">> \o StrOfNat(d[k])
        RECURSIVE Items(_)
        Items(i) ==
            IF i > Len(KeyOrder) THEN <<>>
            ELSE IF d[KeyOrder[i]] = NoEntry THEN Items(i + 1)
            ELSE <<item(KeyOrder[i])>> \o Items(i + 1)
    IN  Items(1)

\* json.dumps(d)
JsonDumps(d) == <<"{">> \o Join(DictItems(d, "\""), <<",", " ">>) \o <<"}">>

\* str(d) of a dict
DictRepr(d) == <<"{">> \o Join(DictItems(d, "'"), <<",", " ">>) \o <<"}">>

(* ------------------------- Python values ------------------------------- *)

Names == {"a", "b"}
NameOrder == <<"a", "b">>

Refs == {1, 2, 3}
NoRef == 0

Val(t, n, s, l, ref) == [t |-> t, n |-> n, s |-> s, l |-> l, ref |-> ref]

Absent == Val("absent", 0, <<>>, <<>>, NoRef)
None == Val("none", 0, <<>>, <<>>, NoRef)
IntVal(n) == Val("int", n, <<>>, <<>>, NoRef)
StrVal(s) == Val("str", 0, s, <<>>, NoRef)
ListVal(l) == Val("list", 0, <<>>, l, NoRef)
DictVal(ref) == Val("dict", 0, <<>>, <<>>, ref)

\* the list ["a", "b"]
ListAB == ListVal(<<(<<"a">>), (<<"b">>)>>)

\* the values a caller passes for one argument
ArgValues ==
    {None, IntVal(42), ListAB} \cup {DictVal(r) : r \in Refs}

\* the keyword-argument sets of a call: a name is bound to a value or absent
ArgSets == [Names -> ArgValues \cup {Absent}]

\* the dicts the caller holds when the program starts
Heap0 ==
    [r \in Refs |->
        CASE r = 1 -> EmptyDict
          [] r = 2 -> [k \in Keys |-> IF k = "k" THEN 1 ELSE NoEntry]
          [] OTHER -> [k \in Keys |-> 2]]

\* str(value), h the heap the value refers into
StrOf(v, h) ==
    CASE v.t = "int" -> StrOfNat(v.n)
      [] v.t = "str" -> v.s
      [] v.t = "dict" -> DictRepr(h[v.ref])
      [] v.t = "list" ->
            <<"[">>
            \o Join([i \in 1..Len(v.l) |-> <<"'">> \o v.l[i] \o <<"'">>],
                    <<",", " ">>)
            \o <<"]">>
      [] OTHER -> <<"N", "o", "n", "e">>

\* urllib.urlencode(params): 'k=v' pairs joined with '&'
UrlEncode(params, h) ==
    LET pair(n) == QuotePlus(<<n>>) \o <<"=">> \o QuotePlus(StrOf(params[n], h))
        RECURSIVE Pairs(_)
        Pairs(i) ==
            IF i > Len(NameOrder) THEN <<>>
            ELSE IF params[NameOrder[i]].t = "absent" THEN Pairs(i + 1)
            ELSE <<pair(NameOrder[i])>> \o Pairs(i + 1)
    IN  Join(Pairs(1), <<"&">>)

(* --------------------------- descriptors ------------------------------- *)

\* 'header' stands for every paramType the dispatcher does not handle
ParamTypes == {"path", "query", "body", "header"}

ParamDescriptors ==
    [name : Names, paramType : ParamTypes, required : BOOLEAN]

DistinctNames(ps) ==
    \A i, j \in 1..Len(ps) : ps[i].name = ps[j].name => i = j

\* the parameter lists of an operation: names are not repeated in one list
ParameterLists ==
    {ps \in UNION {[1..n -> ParamDescriptors] : n \in 0..MaxParams} :
        DistinctNames(ps)}

OperationDescriptors ==
    [nickname : {"op"}, httpMethod : {"POST"},
     parameters : ParameterLists, is_websocket : BOOLEAN]

BasePaths == {<<"h", "t", "t", "p", ":", "/", "h">>, <<"/", "h">>}

ApiPath == <<"/", "{", "a", "}", "/", "{", "b", "}">>

ResourceDescriptors ==
    {[name |-> "res",
      api_declaration |->
          [basePath |-> bp,
           apis |-> <<[path |-> ApiPath, operations |-> <<od>>]>>]] :
        bp \in BasePaths, od \in OperationDescriptors}

(* ------------------------- errors, requests ---------------------------- *)

Err(kind, exc, param, nickname, names) ==
    [kind |-> kind, exc |-> exc, param |-> param, nickname |-> nickname,
     names |-> names]

NoError == Err("none", "", "", "", {})

\* TypeError('Missing required parameter "{0}" for "{1}"')
MissingParameter(pname, nickname) ==
    Err("MissingParameter", "TypeError", pname, nickname, {})

\* TypeError('"{0}" does not have parameters {1!r:s}')
UnexpectedParameter(nickname, names) ==
    Err("UnexpectedParameter", "TypeError", "", nickname, names)

\* TypeError('Parameters of type "body" require dict input')
TypeMismatch == Err("TypeMismatch", "TypeError", "", "", {})

\* AssertionError(u'Unsupported paramType {0}')
UnsupportedParamType == Err("UnsupportedParamType", "AssertionError", "", "", {})

\* NotImplementedError('Sending body data with websockets not implmented')
BodyWithWebsocket == Err("BodyWithWebsocket", "NotImplementedError", "", "", {})

ValidationErrors ==
    {"MissingParameter", "UnexpectedParameter", "TypeMismatch",
     "UnsupportedParamType", "BodyWithWebsocket"}

\* the body argument of a transport call: None, a serialized text, or a dict
NoBody == [kind |-> "none", text |-> <<>>, dict |-> EmptyDict]
TextBody(s) == [kind |-> "text", text |-> s, dict |-> EmptyDict]
DictBody(d) == [kind |-> "dict", text |-> <<>>, dict |-> d]

NoHeaders == [present |-> FALSE, fields |-> {}]
JsonHeaders ==
    [present |-> TRUE,
     fields |-> {<<"Content-type", "application/json">>,
                 <<"Accept", "application/json">>}]

Request(kind, url, method, body, headers) ==
    [kind |-> kind, url |-> url, method |-> method, body |-> body,
     headers |-> headers]

NoRequest == Request("none", <<>>, "", NoBody, NoHeaders)

(* ------------------------ Operation.__call__ --------------------------- *)

\* the locals of an invocation when the parameter loop starts
Locals(op, kwargs, h) ==
    [uri |-> op.uri,
     params |-> [n \in Names |-> Absent],
     data |-> NoRef,
     kwargs |-> kwargs,
     heap |-> h,
     error |-> NoError]

\* kwargs.get(pname), a list turned into comma separated values
ArgValue(pname, st) ==
    LET got == st.kwargs[pname]
    IN  IF got.t = "absent" THEN None
        ELSE IF got.t = "list" THEN StrVal(Join(got.l, <<",">>))
        ELSE got

\* del kwargs[pname]
DelArg(pname, st) == [st EXCEPT !.kwargs[pname] = Absent]

\* paramType 'path': the placeholder replaced by the quoted value
BindPath(pname, value, st) ==
    DelArg(pname,
        [st EXCEPT !.uri = Replace(st.uri, <<"{", pname, "}">>,
                                   QuotePlus(StrOf(value, st.heap)))])

\* paramType 'query'
BindQuery(pname, value, st) ==
    DelArg(pname, [st EXCEPT !.params[pname] = value])

\* paramType 'body': the first dict becomes data, later ones update it
BindBody(pname, value, st) ==
    IF value.t = "dict"
    THEN IF st.data # NoRef /\ Truthy(st.heap[st.data])
         THEN DelArg(pname,
                  [st EXCEPT !.heap[st.data] =
                      DictUpdate(st.heap[st.data], st.heap[value.ref])])
         ELSE DelArg(pname, [st EXCEPT !.data = value.ref])
    ELSE [st EXCEPT !.error = TypeMismatch]

\* a paramType without a branch, taken as consumed
BindUnsupportedIgnored(pname, value, st) ==
    DelArg(pname, st)

\* any other paramType
BindUnsupported(pname, value, st) ==
    [st EXCEPT !.error = UnsupportedParamType]

\* a parameter without a value, never required
RequireParamNever(op, param, st) ==
    st

\* a parameter without a value: an error when it is required
RequireParam(op, param, st) ==
    IF param.required
    THEN [st EXCEPT !.error = MissingParameter(param.name, op.json.nickname)]
    ELSE st

\* one pass of the loop over self.json['parameters']
BindParam(op, param, st) ==
    LET pname == param.name
        value == ArgValue(pname, st)
    IN  IF value.t # "none"
        THEN CASE param.paramType = "path" -> BindPath(pname, value, st)
               [] param.paramType = "query" -> BindQuery(pname, value, st)
               [] param.paramType = "body" -> BindBody(pname, value, st)
               [] OTHER -> BindUnsupported(pname, value, st)
        ELSE RequireParam(op, param, st)

RECURSIVE BindFrom(_, _, _)
\* the parameter loop from its i-th pass on; a raise ends it
BindFrom(op, i, st) ==
    IF i > Len(op.json.parameters) \/ st.error.kind # "none" THEN st
    ELSE BindFrom(op, i + 1, BindParam(op, op.json.parameters[i], st))

\* the names left in kwargs
Leftover(kwargs) == {n \in Names : kwargs[n].t # "absent"}

\* leftover arguments let through
CheckLeftoverNever(op, st) ==
    st

\* the check of the arguments the loop did not consume
CheckLeftover(op, st) ==
    IF st.error.kind = "none" /\ Leftover(st.kwargs) # {}
    THEN [st EXCEPT
             !.error = UnexpectedParameter(op.json.nickname,
                                           Leftover(st.kwargs))]
    ELSE st

\* the outcome of an invocation: locals at its end, error raised, call made
Outcome(st, uri, body, headers, error, sent) ==
    [uri |-> uri, params |-> st.params, data |-> st.data,
     kwargs |-> st.kwargs, heap |-> st.heap, body |-> body,
     headers |-> headers, error |-> error, sent |-> sent]

\* a websocket branch that connects before it looks at the body
WebsocketConnectFirst(st, url, body, headers) ==
    Outcome(st, ReSubHttp(st.uri), body, headers,
            IF body.kind = "text" THEN BodyWithWebsocket ELSE NoError,
            Request("connect", url, "GET", NoBody, NoHeaders))

\* the is_websocket branch: uri fixed up, a body refused, then the connect
Websocket(st, url, body, headers) ==
    IF body.kind = "text"
    THEN Outcome(st, ReSubHttp(st.uri), body, headers, BodyWithWebsocket,
                 NoRequest)
    ELSE Outcome(st, ReSubHttp(st.uri), body, headers, NoError,
                 Request("connect", url, "GET", NoBody, NoHeaders))

\* the plain branch: http_client.fetch(url, method, body, headers)
Fetch(op, st, url, body, headers) ==
    Outcome(st, st.uri, body, headers, NoError,
            Request("fetch", url, op.json.httpMethod, body, headers))

\* request synthesis and hand-over to the transport, after binding
Synthesize(op, st) ==
    LET hasData == st.data # NoRef /\ Truthy(st.heap[st.data])
        \* 'if data:' serializes a non-empty dict only
        body == IF hasData THEN TextBody(JsonDumps(st.heap[st.data]))
                ELSE IF st.data # NoRef THEN DictBody(st.heap[st.data])
                ELSE NoBody
        headers == IF hasData THEN JsonHeaders ELSE NoHeaders
        url == Join(<<st.uri, UrlEncode(st.params, st.heap)>>, <<"?">>)
    IN  IF st.error.kind # "none"
        THEN Outcome(st, st.uri, NoBody, NoHeaders, st.error, NoRequest)
        ELSE IF op.json.is_websocket
        THEN Websocket(st, url, body, headers)
        ELSE Fetch(op, st, url, body, headers)

\* Operation.__call__(**kwargs) up to its first yield
Call(op, kwargs, h) ==
    Synthesize(op, CheckLeftover(op, BindFrom(op, 1, Locals(op, kwargs, h))))

(* ----------------------------- Resource -------------------------------- *)

\* Operation.__init__
NewOperation(uri, operation, client) ==
    [uri |-> uri, json |-> operation, http_client |-> client]

\* Resource._build_operation
BuildOperation(decl, api, operation, client) ==
    NewOperation(decl.basePath \o api.path, operation, client)

\* the dict comprehension of Resource.__init__: a later nickname replaces
\* an earlier equal one
BuildOperations(decl, client) ==
    LET RECURSIVE OverOpers(_, _, _)
        OverOpers(api, j, acc) ==
            IF j > Len(api.operations) THEN acc
            ELSE OverOpers(api, j + 1,
                    (api.operations[j].nickname :>
                        BuildOperation(decl, api, api.operations[j], client))
                    @@ acc)
        RECURSIVE OverApis(_, _)
        OverApis(i, acc) ==
            IF i > Len(decl.apis) THEN acc
            ELSE OverApis(i + 1, OverOpers(decl.apis[i], 1, acc))
    IN  OverApis(1, <<>>)

(* --------------------------- state machine ----------------------------- *)

\* no invocation made yet
NoFrame ==
    [called |-> FALSE, nickname |-> "", args |-> [n \in Names |-> Absent],
     heapBefore |-> Heap0,
     out |-> Outcome(Locals([uri |-> <<>>], [n \in Names |-> Absent], Heap0),
                     <<>>, NoBody, NoHeaders, NoError, NoRequest)]

Init ==
    /\ resource \in ResourceDescriptors
    /\ operations = <<>>
    /\ loaded = FALSE
    /\ http_client = [defaults |-> "defaults"]
    /\ heap = Heap0
    /\ frame = NoFrame
    /\ inflight = 0

\* Resource.__init__(resource, http_client)
ResourceInit ==
    /\ ~loaded
    /\ operations' = BuildOperations(resource.api_declaration, "http_client")
    /\ loaded' = TRUE
    /\ UNCHANGED <<resource, http_client, heap, frame, inflight>>

\* resource.<nickname>(**kwargs): binding and synthesis run to the first
\* yield without suspending; frame holds the running invocation, and a
\* transport call it made is in flight
Invoke ==
    /\ loaded
    /\ ~frame.called
    /\ inflight < MaxInFlight
    /\ \E nick \in DOMAIN operations, kwargs \in ArgSets :
          LET out == Call(operations[nick], kwargs, heap)
          IN  /\ frame' = [called |-> TRUE, nickname |-> nick,
                           args |-> kwargs, heapBefore |-> heap, out |-> out]
              /\ heap' = out.heap
              /\ inflight' = IF out.sent.kind # "none" THEN inflight + 1
                             ELSE inflight
    /\ UNCHANGED <<resource, loaded, operations, http_client>>

\* the error of the running invocation reaches the caller
Raise ==
    /\ frame.called
    /\ frame.out.error.kind # "none"
    /\ frame' = NoFrame
    /\ UNCHANGED <<resource, loaded, operations, http_client, heap, inflight>>

\* the running invocation suspends at its yield, awaiting the transport
Suspend ==
    /\ frame.called
    /\ frame.out.error.kind = "none"
    /\ frame' = NoFrame
    /\ UNCHANGED <<resource, loaded, operations, http_client, heap, inflight>>

\* the run-loop delivers the completion of a transport call to a suspended
\* invocation, which returns it
Deliver ==
    /\ ~frame.called
    /\ inflight > 0
    /\ inflight' = inflight - 1
    /\ UNCHANGED <<resource, loaded, operations, http_client, heap, frame>>

Next == ResourceInit \/ Invoke \/ Raise \/ Suspend \/ Deliver

Spec == Init /\ [][Next]_vars

(* ------------------- vocabulary of the properties ---------------------- *)
(* What an invocation should do is stated from the descriptor and the      *)
(* arguments as the caller passed them (frame.args, frame.heapBefore),     *)
(* not from the locals of the loop.                                        *)

FOp == operations[frame.nickname]
FParams == FOp.json.parameters
FOut == frame.out

Declared == {FParams[i].name : i \in DOMAIN FParams}
Supplied == {n \in Names : frame.args[n].t # "absent"}
HasValue(n) == frame.args[n].t \notin {"absent", "none"}

Supported == {"path", "query", "body"}

\* the i-th declared parameter, taken alone, is refused
Rejected(i) ==
    LET p == FParams[i]
    IN  IF HasValue(p.name)
        THEN \/ p.paramType \notin Supported
             \/ p.paramType = "body" /\ frame.args[p.name].t # "dict"
        ELSE p.required

AnyRejected == \E i \in DOMAIN FParams : Rejected(i)

FirstRejected ==
    CHOOSE i \in DOMAIN FParams :
        Rejected(i) /\ \A j \in DOMAIN FParams : Rejected(j) => i <= j

\* the error that goes with the refusal of the i-th parameter
RejectionOf(i) ==
    LET p == FParams[i]
    IN  IF ~HasValue(p.name) THEN MissingParameter(p.name, FOp.json.nickname)
        ELSE IF p.paramType = "body" THEN TypeMismatch
        ELSE UnsupportedParamType

\* required parameters that are not among the arguments
AbsentRequired ==
    {i \in DOMAIN FParams :
        FParams[i].required /\ FParams[i].name \notin Supplied}

\* body parameters for which the caller passed a mapping
BodyMappings ==
    {i \in DOMAIN FParams :
        FParams[i].paramType = "body" /\ frame.args[FParams[i].name].t = "dict"}

MappingOf(i) == frame.heapBefore[frame.args[FParams[i].name].ref]

\* the union of the mappings passed, the later-declared parameter winning
ExpectedBody ==
    [k \in Keys |->
        LET holders == {i \in BodyMappings : MappingOf(i)[k] # NoEntry}
        IN  IF holders = {} THEN NoEntry
            ELSE MappingOf(CHOOSE i \in holders : \A j \in holders : j <= i)[k]]

T_a_comma_b == <<"/", "a", ",", "b">>
T_a_2C_b == <<"/", "a", "%", "2", "C", "b">>

\* path parameters for which the caller passed the list ["a", "b"]
PathLists ==
    {i \in DOMAIN FParams :
        FParams[i].paramType = "path" /\ frame.args[FParams[i].name] = ListAB}

Unsupporteds == {i \in DOMAIN FParams : FParams[i].paramType \notin Supported}

(* ----------------------------- properties ------------------------------ *)

\* C1 (as stated): when a required parameter is absent from the arguments,
\* the invocation fails with the missing-parameter error naming a required
\* parameter that has no value and the nickname, and no transport call was
\* made.
C1_MissingAlwaysReported ==
    (frame.called /\ AbsentRequired # {}) =>
        /\ FOut.error.kind = "MissingParameter"
        /\ FOut.error.param \in
              {FParams[i].name : i \in {j \in DOMAIN FParams :
                    FParams[j].required /\ ~HasValue(FParams[j].name)}}
        /\ FOut.error.nickname = FOp.json.nickname
        /\ FOut.sent = NoRequest

\* C1 (amended): when a required parameter is absent from the arguments,
\* the invocation fails without a transport call, with the error of the
\* first-declared parameter that is refused: the missing-parameter error
\* naming that parameter and the nickname when it is a required parameter
\* without a value, the type-mismatch or unsupported-paramType error when
\* it is a supplied parameter declared earlier.
C1_FirstRejectionReported ==
    (frame.called /\ AbsentRequired # {}) =>
        /\ FOut.error = RejectionOf(FirstRejected)
        /\ FOut.sent = NoRequest
        /\ (\A i \in AbsentRequired : FirstRejected <= i)
        /\ (FirstRejected \in AbsentRequired =>
                FOut.error = MissingParameter(FParams[FirstRejected].name,
                                             FOp.json.nickname))

C1_Witness ==
    /\ frame.called
    /\ Len(FParams) = 2
    /\ AbsentRequired = {2}
    /\ HasValue(FParams[1].name)
    /\ FOut.error = MissingParameter(FParams[2].name, "op")

\* C2 (as stated): an argument set holding a key that is not declared
\* fails with the unexpected-parameter error, which names the nickname and
\* the leftover argument names.
C2_UnexpectedAlwaysReported ==
    (frame.called /\ Supplied \ Declared # {}) =>
        /\ FOut.error.kind = "UnexpectedParameter"
        /\ FOut.error.nickname = FOp.json.nickname
        /\ Supplied \ Declared \subseteq FOut.error.names

\* C2 (amended): an argument set holding a key that is not declared fails
\* without a transport call; the error is the unexpected-parameter error,
\* naming the nickname and the leftover names (the undeclared keys and the
\* declared keys passed as None), unless a declared parameter is refused in
\* the loop, whose error is raised instead.
C2_UnexpectedUnlessRejected ==
    (frame.called /\ Supplied \ Declared # {}) =>
        /\ FOut.sent = NoRequest
        /\ FOut.error =
              IF AnyRejected THEN RejectionOf(FirstRejected)
              ELSE UnexpectedParameter("op",
                       {n \in Supplied : n \notin Declared \/ ~HasValue(n)})

C2_Witness ==
    /\ frame.called
    /\ Len(FParams) = 1
    /\ HasValue(FParams[1].name)
    /\ Supplied \ Declared # {}
    /\ FOut.error.kind = "UnexpectedParameter"
    /\ FOut.error.names = Supplied \ Declared

\* what holds of the running invocation when validation refuses it
ValidationKeepsOffTransport ==
    /\ FOut.error.kind \in ValidationErrors => FOut.sent = NoRequest
    /\ (FOp.json.is_websocket /\ \E i \in BodyMappings : Truthy(MappingOf(i))) =>
          /\ FOut.error.kind \in ValidationErrors
          /\ FOut.sent = NoRequest
          /\ (/\ ~AnyRejected
              /\ Supplied \subseteq Declared
              /\ \A n \in Supplied : HasValue(n)) =>
                 FOut.error = BodyWithWebsocket

\* C3: an invocation that ends in a validation error has made no transport
\* call (none handed over, none more in flight); a websocket operation
\* invoked with a non-empty body fails before any connection attempt, with
\* the body-with-websocket error when nothing else is wrong with the call.
C3_NoTransportOnFailure ==
    [][(~frame.called /\ frame'.called) =>
        /\ ValidationKeepsOffTransport'
        /\ (frame'.out.error.kind \in ValidationErrors => inflight' = inflight)
      ]_vars

C3_Witness ==
    /\ frame.called
    /\ FOp.json.is_websocket
    /\ BodyMappings # {}
    /\ FOut.error = BodyWithWebsocket
    /\ FOut.sent = NoRequest

\* C4: a websocket operation whose uri starts with 'http' hands the connect
\* a URL whose 'http' prefix was rewritten to 'ws'.
C4_ConnectUrlRewritten ==
    (/\ frame.called
     /\ FOp.json.is_websocket
     /\ StartsWith(FOp.uri, T_http)
     /\ FOut.sent.kind = "connect") =>
        /\ StartsWith(FOut.sent.url, T_ws)
        /\ ~StartsWith(FOut.sent.url, T_http)

\* C5 (as stated): a path parameter passed ["a", "b"] puts the literal text
\* 'a,b' into the request URL, the comma not percent-encoded.
C5_CommaLiteral ==
    (frame.called /\ PathLists # {} /\ FOut.sent.kind # "none") =>
        Contains(FOut.sent.url, T_a_comma_b)

\* C5 (amended): a path parameter passed ["a", "b"] has its placeholder
\* replaced by the elements joined with a comma and then percent-encoded:
\* the request URL holds 'a%2Cb', and neither 'a,b' nor the placeholder.
C5_CommaQuoted ==
    (frame.called /\ PathLists # {} /\ FOut.sent.kind # "none") =>
        /\ Contains(FOut.sent.url, T_a_2C_b)
        /\ ~Contains(FOut.sent.url, T_a_comma_b)
        /\ \A i \in PathLists :
              ~Contains(FOut.sent.url, <<"{", FParams[i].name, "}">>)

C5_Witness ==
    /\ frame.called
    /\ PathLists # {}
    /\ FOut.sent.kind = "fetch"
    /\ Contains(FOut.sent.url, T_a_2C_b)

\* C6: a mapping of any size passed for a body parameter of a call that
\* validates on a non-websocket operation reaches http_client.fetch as its
\* JSON text, with the Content-type and Accept headers.
C6_BodySerialized ==
    (/\ frame.called
     /\ ~FOp.json.is_websocket
     /\ BodyMappings # {}
     /\ FOut.error.kind = "none") =>
        /\ FOut.sent.kind = "fetch"
        /\ FOut.sent.body = TextBody(JsonDumps(ExpectedBody))
        /\ FOut.sent.headers = JsonHeaders

\* C7: when mappings are passed for several body parameters, the body sent
\* is their union in declaration order, the later-declared parameter's
\* value standing for a key that several of them hold.
C7_BodiesMerged ==
    (/\ frame.called
     /\ Cardinality(BodyMappings) >= 2
     /\ FOut.sent.kind = "fetch") =>
        \/ FOut.sent.body = TextBody(JsonDumps(ExpectedBody))
        \/ FOut.sent.body = DictBody(ExpectedBody)

C7_Witness ==
    /\ frame.called
    /\ Cardinality(BodyMappings) = 2
    /\ \E k \in Keys : \A i \in BodyMappings : MappingOf(i)[k] # NoEntry
    /\ MappingOf(1) # MappingOf(2)
    /\ MappingOf(2)["k"] = 1
    /\ FOut.sent.kind = "fetch"
    /\ FOut.sent.body = TextBody(JsonDumps([k \in Keys |-> IF k = "k" THEN 1 ELSE 2]))

\* C8: an invocation changes neither the Operation (uri, descriptor), nor
\* the transport handle, nor the content of a value the caller passed.
C8_NoSideEffects ==
    [][loaded =>
        /\ operations' = operations
        /\ http_client' = http_client
        /\ heap' = heap]_vars

\* C9: when every argument name is a declared parameter, each is removed
\* once processed, nothing is left over after the loop and the invocation
\* does not fail with the unexpected-parameter error.
C9_DeclaredNeverUnexpected ==
    (frame.called /\ Supplied \subseteq Declared) =>
        /\ FOut.error.kind # "UnexpectedParameter"
        /\ (FOut.error.kind \in {"none", "BodyWithWebsocket"} =>
                Leftover(FOut.kwargs) = {})

\* C10 (as stated): every invocation of an operation that declares a
\* parameter of an unsupported paramType fails with the unsupported-
\* paramType error and issues no request, a value supplied or not.
C10_AlwaysRejected ==
    (frame.called /\ Unsupporteds # {}) =>
        /\ FOut.error = UnsupportedParamType
        /\ FOut.sent = NoRequest

\* C10 (amended): building the Resource from a descriptor that declares a
\* parameter of an unsupported paramType raises nothing and yields its
\* Operation; an invocation fails with the unsupported-paramType error (an
\* AssertionError) and issues no request exactly when such a parameter is
\* passed a value other than None and no parameter declared before it is
\* refused; without a value for it the parameter is not refused on account
\* of its paramType.
C10_RejectedWhenSupplied ==
    /\ loaded =>
          \A i \in DOMAIN resource.api_declaration.apis :
              LET api == resource.api_declaration.apis[i]
              IN  \A j \in DOMAIN api.operations :
                      /\ api.operations[j].nickname \in DOMAIN operations
                      /\ operations[api.operations[j].nickname].json =
                             api.operations[j]
    /\ frame.called =>
          /\ \A i \in Unsupporteds :
                (HasValue(FParams[i].name) /\ FirstRejected = i) =>
                    /\ FOut.error = UnsupportedParamType
                    /\ FOut.error.exc = "AssertionError"
                    /\ FOut.sent = NoRequest
          /\ FOut.error.kind = "UnsupportedParamType" =>
                /\ AnyRejected
                /\ FirstRejected \in Unsupporteds
                /\ HasValue(FParams[FirstRejected].name)

C10_Witness ==
    /\ frame.called
    /\ Len(FParams) = 2
    /\ AnyRejected
    /\ FirstRejected = 2
    /\ FOut.error = UnsupportedParamType
    /\ FOut.sent = NoRequest

====
